---- MODULE Spec2Model ----
(***************************************************************************)
(* Flask-IIIF utilities (flask_iiif/utils.py): iiif_image_url,             *)
(* create_gif_from_frames, resize_gif and should_cache.                    *)
(*                                                                         *)
(* create_gif_from_frames is modelled statement by statement over a small  *)
(* file system, so that calls running in different workers interleave at   *)
(* every file-system operation.  iiif_image_url and should_cache are pure  *)
(* functions of their mapping argument; they are operators, applied by one *)
(* action each to arguments drawn in the initial state.                    *)
(***************************************************************************)
EXTENDS Integers, Sequences, FiniteSets, TLC

\* ------------------------------------------------------------------ bounds
MaxFrames == 3      \* longest frame sequence / source animation
NumProcs == 2       \* workers that may run create_gif_from_frames at once
NumDirs == 2        \* directory names mkdtemp can draw under the temp folder

Procs == 1..NumProcs
DirNames == 1..NumDirs

\* ------------------------------------------------------------------ frames
\* A frame is a raster: size = <<width, height>>, px = height rows of width
\* pixel values each.
FrameA == [size |-> <<2, 1>>, px |-> << <<0, 1>> >>]
FrameB == [size |-> <<2, 1>>, px |-> << <<0, 0>> >>]
FrameC == [size |-> <<2, 1>>, px |-> << <<1, 1>> >>]
Frames == {FrameA, FrameB, FrameC}

\* sequences of frames of length lo..hi
FrameSeqs(lo, hi) == UNION {[1..n -> Frames] : n \in lo..hi}

Sizes == {<<1, 1>>, <<2, 2>>, <<1, 2>>}
Resamples == {"NEAREST"}
Durations == {500, 100}
Loops == {0, 2}

\* frame.resize(size, resample): a new raster of exactly the requested size;
\* each output pixel is the source pixel under its centre (nearest
\* neighbour).
resize(frame, size, resample) ==
    LET w == frame.size[1]
        h == frame.size[2]
        W == size[1]
        H == size[2]
    IN  [size |-> size,
         px |-> [y \in 1..H |-> [x \in 1..W |->
                   frame.px[(((2 * y - 1) * h) \div (2 * H)) + 1]
                           [(((2 * x - 1) * w) \div (2 * W)) + 1]]]]

\* ImageSequence.Iterator(image): the frames of the image by seek(0),
\* seek(1), ... until the end, i.e. in playback order.
ImageSequenceIterator(image) == [i \in 1..Len(image) |-> image[i]]

\* --------------------------------------------------- the GIF encoder (PIL)
\* head.save(file, "GIF", save_all=True, append_images=tail, duration, loop)
\* writes head followed by the appended images, each shown for `duration`.
\* Depending on the installed Pillow, a frame identical to the one before it
\* is not stored again: its duration is added to the previous frame.
RECURSIVE MergeIdentical(_)
MergeIdentical(ims) ==
    IF Len(ims) <= 1 THEN ims
    ELSE LET rest == MergeIdentical(Tail(ims))
         IN  IF Head(ims).im = Head(rest).im
             THEN <<[im |-> Head(ims).im,
                     duration |-> Head(ims).duration + Head(rest).duration]>>
                  \o Tail(rest)
             ELSE <<Head(ims)>> \o rest

GifSave(hd, append_images, dur, lp, merge) ==
    LET all == <<hd>> \o append_images
        ims == [i \in 1..Len(all) |-> [im |-> all[i], duration |-> dur]]
    IN  [frames |-> IF merge THEN MergeIdentical(ims) ELSE ims, loop |-> lp]

\* Image.is_animated: n_frames > 1
is_animated(img) == Len(img.frames) > 1

NoImage == [frames |-> <<>>, loop |-> 0]

\* ------------------------------------------------------------- file system
\* fs[d]: the directory named d under IIIF_GIF_TEMP_FOLDER_PATH: whether it
\* exists, the call that created it, and its files (name, data).
NoDir == [exists |-> FALSE, owner |-> 0, files |-> {}]
NoTmp == 0
NoPath == <<0, "">>

\* os.path.join(tmp, name)
join(dir, name) == <<dir, name>>

HasFile(f, path) ==
    /\ path[1] \in DirNames
    /\ f[path[1]].exists
    /\ \E e \in f[path[1]].files : e.name = path[2]

ReadFile(f, path) == (CHOOSE e \in f[path[1]].files : e.name = path[2]).data

WriteFile(f, path, data) ==
    [f EXCEPT ![path[1]].files =
        {e \in @ : e.name # path[2]} \cup {[name |-> path[2], data |-> data]}]

NoError == <<"", 0>>

VARIABLES
    merges,      \* whether the installed encoder merges identical frames
    fs,          \* the temp folder
    pc,          \* per call: the statement it is at
    via,         \* per call: "direct" or "resize_gif"
    image, size, resample,      \* resize_gif's arguments
    frames, duration, loop,     \* create_gif_from_frames' arguments
    tmp, tmp_file, head, tail, gif_image,   \* its locals
    ret,         \* the returned image
    error,       \* the exception that ended the call: <<type, line>>
    kwargs, url_for_call, url_ret,          \* iiif_image_url
    request_args, cache_ret                 \* should_cache

gifvars == <<merges, fs, pc, via, image, size, resample, frames, duration,
             loop, tmp, tmp_file, head, tail, gif_image, ret, error>>
urlvars == <<kwargs, url_for_call, url_ret>>
cachevars == <<request_args, cache_ret>>
vars == <<gifvars, urlvars, cachevars>>

\* ------------------------------------------------------------ initial state
NoFrame == [size |-> <<0, 0>>, px |-> <<>>]

GifInit ==
    /\ merges \in BOOLEAN
    /\ fs = [d \in DirNames |-> NoDir]
    /\ pc = [p \in Procs |-> "idle"]
    /\ via = [p \in Procs |-> ""]
    /\ image = [p \in Procs |-> <<>>]
    /\ size = [p \in Procs |-> <<0, 0>>]
    /\ resample = [p \in Procs |-> ""]
    /\ frames = [p \in Procs |-> <<>>]
    /\ duration = [p \in Procs |-> 0]
    /\ loop = [p \in Procs |-> 0]
    /\ tmp = [p \in Procs |-> NoTmp]
    /\ tmp_file = [p \in Procs |-> NoPath]
    /\ head = [p \in Procs |-> NoFrame]
    /\ tail = [p \in Procs |-> <<>>]
    /\ gif_image = [p \in Procs |-> NoImage]
    /\ ret = [p \in Procs |-> NoImage]
    /\ error = [p \in Procs |-> NoError]

\* ---------------------------------------------------- create_gif_from_frames
DefaultDuration == 500
DefaultLoop == 0

\* entry: def create_gif_from_frames(frames, duration=500, loop=0)
create_gif_from_frames(p, fr, d, l) ==
    /\ pc[p] = "idle"
    /\ via' = [via EXCEPT ![p] = "direct"]
    /\ frames' = [frames EXCEPT ![p] = fr]
    /\ duration' = [duration EXCEPT ![p] = d]
    /\ loop' = [loop EXCEPT ![p] = l]
    /\ pc' = [pc EXCEPT ![p] = "l79"]
    /\ UNCHANGED <<merges, fs, image, size, resample, tmp, tmp_file, head,
                   tail, gif_image, ret, error, urlvars, cachevars>>

\* a variant that walks the source frames backwards
ResizedFrames_reversed(img, sz, rs) ==
    LET it == ImageSequenceIterator(img)
    IN  [i \in 1..Len(it) |-> resize(it[Len(it) + 1 - i], sz, rs)]

\* resize_gif(image, size, resample): the list comprehension, then the call
\* of create_gif_from_frames with the frames alone (default duration, loop)
ResizedFrames(img, sz, rs) ==
    LET it == ImageSequenceIterator(img)
    IN  [i \in 1..Len(it) |-> resize(it[i], sz, rs)]

resize_gif(p, img, sz, rs) ==
    /\ pc[p] = "idle"
    /\ via' = [via EXCEPT ![p] = "resize_gif"]
    /\ image' = [image EXCEPT ![p] = img]
    /\ size' = [size EXCEPT ![p] = sz]
    /\ resample' = [resample EXCEPT ![p] = rs]
    /\ frames' = [frames EXCEPT ![p] = ResizedFrames(img, sz, rs)]
    /\ duration' = [duration EXCEPT ![p] = DefaultDuration]
    /\ loop' = [loop EXCEPT ![p] = DefaultLoop]
    /\ pc' = [pc EXCEPT ![p] = "l79"]
    /\ UNCHANGED <<merges, fs, tmp, tmp_file, head, tail, gif_image, ret,
                   error, urlvars, cachevars>>

Raise(p, type, line) ==
    /\ pc' = [pc EXCEPT ![p] = "raised"]
    /\ error' = [error EXCEPT ![p] = <<type, line>>]

\* a variant that does not insist on a new name (makedirs with exist_ok)
mkdtemp_names_any(f) == DirNames

\* tempfile.mkdtemp(dir=...): the names it may give the new directory: one
\* that does not exist (the directory is made with an exclusive mkdir)
mkdtemp_names(f) == {d \in DirNames : ~f[d].exists}

\* line 79-80: tmp = tempfile.mkdtemp(...); tmp_file = join(tmp, "temp.gif")
Mkdtemp(p) ==
    /\ pc[p] = "l79"
    /\ \E d \in mkdtemp_names(fs) :
         /\ fs' = [fs EXCEPT ![d] = [exists |-> TRUE, owner |-> p, files |-> {}]]
         /\ tmp' = [tmp EXCEPT ![p] = d]
         /\ tmp_file' = [tmp_file EXCEPT ![p] = join(d, "temp.gif")]
    /\ pc' = [pc EXCEPT ![p] = "l82"]
    /\ UNCHANGED <<merges, via, image, size, resample, frames, duration,
                   loop, head, tail, gif_image, ret, error, urlvars, cachevars>>

\* line 79 raising OSError (folder missing or not writable, no free name)
MkdtempFails(p) ==
    /\ pc[p] = "l79"
    /\ Raise(p, "OSError", 79)
    /\ UNCHANGED <<merges, fs, via, image, size, resample, frames, duration,
                   loop, tmp, tmp_file, head, tail, gif_image, ret, urlvars,
                   cachevars>>

\* a variant that appends the whole sequence: frames[0:]
Slice1_whole(fr) == fr

\* frames[1:]
Slice1(fr) == SubSeq(fr, 2, Len(fr))

\* line 82: head, tail = frames[0], frames[1:]; frames[0] of an empty
\* sequence raises IndexError
HeadTail(p) ==
    /\ pc[p] = "l82"
    /\ IF Len(frames[p]) = 0
       THEN /\ Raise(p, "IndexError", 82)
            /\ UNCHANGED <<head, tail>>
       ELSE /\ head' = [head EXCEPT ![p] = frames[p][1]]
            /\ tail' = [tail EXCEPT ![p] = Slice1(frames[p])]
            /\ pc' = [pc EXCEPT ![p] = "l83"]
            /\ UNCHANGED error
    /\ UNCHANGED <<merges, fs, via, image, size, resample, frames, duration,
                   loop, tmp, tmp_file, gif_image, ret, urlvars, cachevars>>

\* line 83-85: head.save(tmp_file, "GIF", save_all=True, append_images=tail,
\*                       duration=duration, loop=loop)
Save(p) ==
    /\ pc[p] = "l83"
    /\ fs[tmp_file[p][1]].exists
    /\ fs' = WriteFile(fs, tmp_file[p],
                       GifSave(head[p], tail[p], duration[p], loop[p], merges))
    /\ pc' = [pc EXCEPT ![p] = "l87"]
    /\ UNCHANGED <<merges, via, image, size, resample, frames, duration,
                   loop, tmp, tmp_file, head, tail, gif_image, ret, error,
                   urlvars, cachevars>>

\* line 83 raising OSError (disk full, directory gone)
SaveFails(p) ==
    /\ pc[p] = "l83"
    /\ Raise(p, "OSError", 83)
    /\ UNCHANGED <<merges, fs, via, image, size, resample, frames, duration,
                   loop, tmp, tmp_file, head, tail, gif_image, ret, urlvars,
                   cachevars>>

\* line 87: gif_image = Image.open(tmp_file)
Open(p) ==
    /\ pc[p] = "l87"
    /\ HasFile(fs, tmp_file[p])
    /\ gif_image' = [gif_image EXCEPT ![p] = ReadFile(fs, tmp_file[p])]
    /\ pc' = [pc EXCEPT ![p] = "l88"]
    /\ UNCHANGED <<merges, fs, via, image, size, resample, frames, duration,
                   loop, tmp, tmp_file, head, tail, ret, error, urlvars,
                   cachevars>>

\* line 87 raising OSError (file missing or unreadable)
OpenFails(p) ==
    /\ pc[p] = "l87"
    /\ Raise(p, "OSError", 87)
    /\ UNCHANGED <<merges, fs, via, image, size, resample, frames, duration,
                   loop, tmp, tmp_file, head, tail, gif_image, ret, urlvars,
                   cachevars>>

\* a variant without the assertion
AssertIsAnimated_stripped(p) ==
    /\ pc[p] = "l88"
    /\ pc' = [pc EXCEPT ![p] = "l91"]
    /\ UNCHANGED <<merges, fs, via, image, size, resample, frames, duration,
                   loop, tmp, tmp_file, head, tail, gif_image, ret, error,
                   urlvars, cachevars>>

\* line 88: assert gif_image.is_animated
AssertIsAnimated(p) ==
    /\ pc[p] = "l88"
    /\ IF is_animated(gif_image[p])
       THEN pc' = [pc EXCEPT ![p] = "l91"] /\ UNCHANGED error
       ELSE Raise(p, "AssertionError", 88)
    /\ UNCHANGED <<merges, fs, via, image, size, resample, frames, duration,
                   loop, tmp, tmp_file, head, tail, gif_image, ret, urlvars,
                   cachevars>>

\* line 91: shutil.rmtree(tmp)
Rmtree(p) ==
    /\ pc[p] = "l91"
    /\ fs[tmp[p]].exists
    /\ fs' = [fs EXCEPT ![tmp[p]] = NoDir]
    /\ pc' = [pc EXCEPT ![p] = "l93"]
    /\ UNCHANGED <<merges, via, image, size, resample, frames, duration,
                   loop, tmp, tmp_file, head, tail, gif_image, ret, error,
                   urlvars, cachevars>>

\* line 91 raising OSError (directory gone, file still in use, permissions)
RmtreeFails(p) ==
    /\ pc[p] = "l91"
    /\ Raise(p, "OSError", 91)
    /\ UNCHANGED <<merges, fs, via, image, size, resample, frames, duration,
                   loop, tmp, tmp_file, head, tail, gif_image, ret, urlvars,
                   cachevars>>

\* line 93: return gif_image
Return(p) ==
    /\ pc[p] = "l93"
    /\ ret' = [ret EXCEPT ![p] = gif_image[p]]
    /\ pc' = [pc EXCEPT ![p] = "returned"]
    /\ UNCHANGED <<merges, fs, via, image, size, resample, frames, duration,
                   loop, tmp, tmp_file, head, tail, gif_image, error,
                   urlvars, cachevars>>

\* ------------------------------------------------------------ iiif_image_url
\* Keyword names are character sequences, so that k.startswith("_") is
\* computed.  Values are tagged: None, a str or an int.
None == <<"None">>
StrV(s) == <<"str", s>>
IntV(i) == <<"int", i>>

K_uuid == <<"u", "u", "i", "d">>
K_image_format == <<"i", "m", "a", "g", "e", "_", "f", "o", "r", "m", "a", "t">>
K_quality == <<"q", "u", "a", "l", "i", "t", "y">>
K_region == <<"r", "e", "g", "i", "o", "n">>
K_rotation == <<"r", "o", "t", "a", "t", "i", "o", "n">>
K_size == <<"s", "i", "z", "e">>
K_version == <<"v", "e", "r", "s", "i", "o", "n">>
K__external == <<"_", "e", "x", "t", "e", "r", "n", "a", "l">>
K__anchor == <<"_", "a", "n", "c", "h", "o", "r">>
K_foo == <<"f", "o", "o">>

RecognizedKeys == {K_image_format, K_quality, K_region, K_rotation, K_size,
                   K_uuid, K_version}
Keys == RecognizedKeys \cup {K__external, K__anchor, K_foo}

\* the value a caller supplies for a keyword when it supplies one
Supplied(k) ==
    CASE k = K_uuid -> StrV("id")
      [] k = K_image_format -> StrV("jpg")
      [] k = K_quality -> StrV("gray")
      [] k = K_region -> StrV("0,0,10,10")
      [] k = K_rotation -> IntV(90)
      [] k = K_size -> StrV("200,200")
      [] k = K_version -> StrV("v3")
      [] k = K__external -> StrV("True")
      [] k = K__anchor -> StrV("top")
      [] OTHER -> StrV("bar")

\* a keyword is absent, passed as None, or passed with a value
Choices == {"absent", "none", "value"}
BuildKwargs(c) ==
    [k \in {x \in DOMAIN c : c[x] # "absent"} |->
        IF c[k] = "none" THEN None ELSE Supplied(k)]

\* k.startswith("_")
startswith_underscore(k) == Len(k) >= 1 /\ k[1] = "_"

\* dict.get(key, default)
get(d, k, default) == IF k \in DOMAIN d THEN d[k] ELSE default

\* a variant that only asks whether the keyword was passed
uuid_assertion_presence_only(kw) == K_uuid \in DOMAIN kw

\* line 48: assert kwargs.get("uuid") is not None
uuid_assertion(kw) == get(kw, K_uuid, None) # None

\* a variant that forwards every keyword that is not a recognized one
url_for_args_all_unrecognized(kw) ==
    [k \in DOMAIN kw \ RecognizedKeys |-> kw[k]]

\* line 52: {k: v for k, v in kwargs.items() if k.startswith("_")}
url_for_args(kw) ==
    [k \in {x \in DOMAIN kw : startswith_underscore(x)} |-> kw[k]]

\* a variant whose rotation falls back to the string "0"
named_args_str_rotation(kw) ==
    [k \in RecognizedKeys |->
        CASE k = K_image_format -> get(kw, K_image_format, StrV("png"))
          [] k = K_quality -> get(kw, K_quality, StrV("default"))
          [] k = K_region -> get(kw, K_region, StrV("full"))
          [] k = K_rotation -> get(kw, K_rotation, StrV("0"))
          [] k = K_size -> get(kw, K_size, StrV("full"))
          [] k = K_uuid -> get(kw, K_uuid, None)
          [] k = K_version -> get(kw, K_version, StrV("v2"))]

\* lines 56-62: the keyword arguments written out in the call
named_args(kw) ==
    [k \in RecognizedKeys |->
        CASE k = K_image_format -> get(kw, K_image_format, StrV("png"))
          [] k = K_quality -> get(kw, K_quality, StrV("default"))
          [] k = K_region -> get(kw, K_region, StrV("full"))
          [] k = K_rotation -> get(kw, K_rotation, IntV(0))
          [] k = K_size -> get(kw, K_size, StrV("full"))
          [] k = K_uuid -> get(kw, K_uuid, None)
          [] k = K_version -> get(kw, K_version, StrV("v2"))]

\* f(**a, **b): the union of two keyword mappings (b's names are new)
Merge(a, b) ==
    [k \in DOMAIN a \cup DOMAIN b |-> IF k \in DOMAIN a THEN a[k] ELSE b[k]]

\* lines 54-64: the call url_for("iiifimageapi", ..., **url_for_args)
UrlForCall(kw) ==
    [endpoint |-> "iiifimageapi",
     values |-> Merge(named_args(kw), url_for_args(kw))]

NoValues == [k \in {} |-> None]
NoCall == [endpoint |-> "", values |-> NoValues]

\* iiif_image_url(**kwargs): the calls made to url_for and the outcome:
\* abort(404), or the locator url_for returned (opaque: held as the call
\* that produced it)
iiif_image_url(kw) ==
    IF ~uuid_assertion(kw)
    THEN [calls |-> <<>>, status |-> "abort", code |-> 404, url |-> NoCall]
    ELSE [calls |-> <<UrlForCall(kw)>>, status |-> "return", code |-> 0,
          url |-> UrlForCall(kw)]

UrlIdle ==
    /\ kwargs = NoValues
    /\ url_for_call = <<>>
    /\ url_ret = [status |-> "pending", code |-> 0, url |-> NoCall]

IiifImageUrl ==
    /\ url_ret.status = "pending"
    /\ LET r == iiif_image_url(kwargs)
       IN  /\ url_for_call' = url_for_call \o r.calls
           /\ url_ret' = [status |-> r.status, code |-> r.code, url |-> r.url]
    /\ UNCHANGED <<kwargs, gifvars, cachevars>>

\* --------------------------------------------------------------- should_cache
CacheKeys == {"cache-control", "Cache-Control", "other"}
CacheValues == {"no-cache", "no-store", "max-age=60", "NO-CACHE", ""}
BuildArgs(c) == [k \in {x \in DOMAIN c : c[x] # "<absent>"} |-> c[k]]

NoArgs == [k \in {} |-> ""]

\* a variant that knows no-cache only
should_cache_no_cache_only(ra) ==
    IF "cache-control" \in DOMAIN ra /\ ra["cache-control"] \in {"no-cache"}
    THEN FALSE
    ELSE TRUE

should_cache(ra) ==
    IF "cache-control" \in DOMAIN ra
       /\ ra["cache-control"] \in {"no-cache", "no-store"}
    THEN FALSE
    ELSE TRUE

CacheIdle ==
    /\ request_args = NoArgs
    /\ cache_ret = [done |-> FALSE, value |-> FALSE]

ShouldCache ==
    /\ ~cache_ret.done
    /\ cache_ret' = [done |-> TRUE, value |-> should_cache(request_args)]
    /\ UNCHANGED <<request_args, gifvars, urlvars>>

\* ------------------------------------------------------------ specifications
\* One worker calling create_gif_from_frames or resize_gif with any
\* arguments.
MainProc == CHOOSE p \in Procs : \A q \in Procs : p <= q

Init == GifInit /\ UrlIdle /\ CacheIdle

Step(p) ==
    \/ Mkdtemp(p)
    \/ MkdtempFails(p)
    \/ HeadTail(p)
    \/ Save(p)
    \/ SaveFails(p)
    \/ Open(p)
    \/ OpenFails(p)
    \/ AssertIsAnimated(p)
    \/ Rmtree(p)
    \/ RmtreeFails(p)
    \/ Return(p)

Next ==
    \/ \E fr \in FrameSeqs(0, MaxFrames), d \in Durations, l \in Loops :
         create_gif_from_frames(MainProc, fr, d, l)
    \/ \E img \in FrameSeqs(1, MaxFrames), sz \in Sizes, rs \in Resamples :
         resize_gif(MainProc, img, sz, rs)
    \/ Step(MainProc)

Spec == Init /\ [][Next]_vars

\* Several workers calling create_gif_from_frames at once, all under the
\* same temp folder.
ConcFrameSeqs == {<<>>, <<FrameA, FrameB>>, <<FrameB, FrameC>>}

NextConc ==
    \E p \in Procs :
        \/ \E fr \in ConcFrameSeqs :
             create_gif_from_frames(p, fr, DefaultDuration, DefaultLoop)
        \/ Step(p)

SpecConc == Init /\ [][NextConc]_vars

\* iiif_image_url applied to every keyword mapping over Keys
InitUrl ==
    /\ GifInit /\ ~merges /\ CacheIdle
    /\ \E c \in [Keys -> Choices] : kwargs = BuildKwargs(c)
    /\ url_for_call = <<>>
    /\ url_ret = [status |-> "pending", code |-> 0, url |-> NoCall]

NextUrl == IiifImageUrl

SpecUrl == InitUrl /\ [][NextUrl]_vars

\* should_cache applied to every request mapping over CacheKeys
InitCache ==
    /\ GifInit /\ ~merges /\ UrlIdle
    /\ \E c \in [CacheKeys -> CacheValues \cup {"<absent>"}] :
         request_args = BuildArgs(c)
    /\ cache_ret = [done |-> FALSE, value |-> FALSE]

NextCache == ShouldCache

SpecCache == InitCache /\ [][NextCache]_vars

\* ===================================================================== claims
Ended(p) == pc[p] \in {"returned", "raised"}

\* the staging directory call p created is still on disk
StagingExists(p) ==
    /\ tmp[p] # NoTmp
    /\ fs[tmp[p]].exists
    /\ fs[tmp[p]].owner = p

\* the frames of an artifact, in playback order
ImagesOf(img) == [i \in 1..Len(img.frames) |-> img.frames[i].im]

NoConsecutiveDup(s) == \A i \in 1..(Len(s) - 1) : s[i] # s[i + 1]

\* C1 (as claimed): a call that created its staging area and ended by a
\* normal return, a failed save, a failed reopen or a failed is-animated
\* assertion leaves no staging directory behind.
C1_ReleasedOnEveryExit ==
    \A p \in Procs :
        (\/ pc[p] = "returned"
         \/ /\ pc[p] = "raised"
            /\ error[p] \in {<<"OSError", 83>>, <<"OSError", 87>>,
                             <<"AssertionError", 88>>})
        => ~StagingExists(p)

\* C2 (as claimed): a call with the empty frame sequence that got its
\* staging area fails with IndexError (EmptyFrameSequence) and leaves no
\* staging directory behind.
C2_EmptyFailsWithoutResidue ==
    \A p \in Procs :
        (Ended(p) /\ Len(frames[p]) = 0 /\ tmp[p] # NoTmp)
        => (pc[p] = "raised" /\ error[p][1] = "IndexError" /\ ~StagingExists(p))

\* C5 (as claimed): every call with a non-empty frame sequence whose
\* file-system steps do not fail returns an artifact holding exactly the
\* input frames, in input order.
C5_EveryNonEmptySucceeds ==
    \A p \in Procs :
        (Ended(p) /\ Len(frames[p]) >= 1 /\ error[p][1] # "OSError")
        => (pc[p] = "returned" /\ ImagesOf(ret[p]) = frames[p])

\* C5 (amended): with no failing file-system step, a sequence of length >= 2
\* without identical neighbours returns a multi-frame artifact holding
\* exactly the input frames in input order; a sequence of length 1 fails the
\* is-animated assertion; and every artifact returned is multi-frame with
\* the first input frame as its base frame.
C5_NonEmptyComposition ==
    \A p \in Procs :
        /\ (Ended(p) /\ error[p][1] # "OSError" /\ Len(frames[p]) >= 2
              /\ NoConsecutiveDup(frames[p]))
           => /\ pc[p] = "returned"
              /\ Len(ret[p].frames) = Len(frames[p])
              /\ ImagesOf(ret[p]) = frames[p]
        /\ (Ended(p) /\ error[p][1] # "OSError" /\ Len(frames[p]) = 1)
           => (pc[p] = "raised" /\ error[p] = <<"AssertionError", 88>>)
        /\ pc[p] = "returned"
           => /\ Len(frames[p]) >= 2
              /\ Len(ret[p].frames) >= 2
              /\ ret[p].frames[1].im = frames[p][1]

C5_Witness ==
    \E p \in Procs :
        /\ pc[p] = "returned"
        /\ Len(frames[p]) >= 3
        /\ NoConsecutiveDup(frames[p])
        /\ ImagesOf(ret[p]) = frames[p]

\* C6: a returned artifact is always multi-frame, and a call whose reopened
\* artifact is not multi-frame ends with AssertionError at line 88.
C6_NeverReturnsStatic ==
    \A p \in Procs :
        /\ pc[p] \in {"l91", "l93", "returned"} => Len(gif_image[p].frames) > 1
        /\ pc[p] = "returned" => Len(ret[p].frames) > 1
        /\ (pc[p] = "raised" /\ error[p][2] >= 88
              /\ Len(gif_image[p].frames) <= 1)
           => error[p] = <<"AssertionError", 88>>

C6_Witness ==
    \E p \in Procs :
        /\ pc[p] = "raised"
        /\ error[p] = <<"AssertionError", 88>>
        /\ Len(gif_image[p].frames) = 1
        /\ ret[p] = NoImage

\* what resize_gif hands to create_gif_from_frames: one frame per source
\* frame, in source order, each of the requested size, default timing
ResizeHandoff(p) ==
    /\ Len(frames[p]) = Len(image[p])
    /\ \A i \in 1..Len(image[p]) :
         /\ frames[p][i].size = size[p]
         /\ Len(frames[p][i].px) = size[p][2]
         /\ \A y \in 1..size[p][2] : Len(frames[p][i].px[y]) = size[p][1]
         /\ frames[p][i] = resize(image[p][i], size[p], resample[p])
    /\ duration[p] = 500
    /\ loop[p] = 0

\* C8 (as claimed): resize_gif hands over the resized frames with default
\* timing, and the result has the source's frame count and order.
C8_ResizeKeepsCount ==
    \A p \in Procs :
        via[p] = "resize_gif"
        => /\ ResizeHandoff(p)
           /\ pc[p] = "returned"
              => /\ Len(ret[p].frames) = Len(image[p])
                 /\ ImagesOf(ret[p]) = frames[p]

\* C8 (amended): resize_gif hands over the resized frames with default
\* timing; a returned result shows the resized frames in source order, with
\* the source's frame count whenever no two neighbouring resized frames are
\* identical (the encoder may store a run of identical frames once).
C8_ResizeHandoff ==
    \A p \in Procs :
        via[p] = "resize_gif"
        => /\ ResizeHandoff(p)
           /\ pc[p] = "returned"
              => /\ ret[p].loop = 0
                 /\ ret[p].frames[1].im = frames[p][1]
                 /\ \A i \in 1..Len(ret[p].frames) :
                      /\ ret[p].frames[i].im.size = size[p]
                      /\ \E j \in i..Len(frames[p]) :
                           ret[p].frames[i].im = frames[p][j]
                 /\ NoConsecutiveDup(frames[p])
                    => /\ Len(ret[p].frames) = Len(image[p])
                       /\ ImagesOf(ret[p]) = frames[p]
                       /\ \A i \in 1..Len(ret[p].frames) :
                            ret[p].frames[i].duration = 500

C8_Witness ==
    \E p \in Procs :
        /\ via[p] = "resize_gif"
        /\ pc[p] = "returned"
        /\ Len(image[p]) >= 3
        /\ size[p] = <<1, 1>>
        /\ NoConsecutiveDup(frames[p])
        /\ Len(ret[p].frames) = Len(image[p])

\* a call between mkdtemp and rmtree
InStaging(p) == pc[p] \in {"l82", "l83", "l87", "l88", "l91"}

\* the encoding of call p's own frames
OwnGif(p) == GifSave(frames[p][1], SubSeq(frames[p], 2, Len(frames[p])),
                     duration[p], loop[p], merges)

\* C10: concurrent calls never share a staging area: a call between mkdtemp
\* and rmtree holds a directory that exists and that it created, its file
\* path lies in that directory, the file there and the artifact it reopened
\* are the encoding of its own frames, and every directory on disk belongs
\* to exactly the call whose tmp it is.
C10_StagingIsolation ==
    /\ \A p \in Procs :
         /\ InStaging(p)
            => /\ StagingExists(p)
               /\ tmp_file[p] = <<tmp[p], "temp.gif">>
         /\ pc[p] \in {"l87", "l88", "l91"}
            => /\ HasFile(fs, tmp_file[p])
               /\ ReadFile(fs, tmp_file[p]) = OwnGif(p)
         /\ pc[p] \in {"l88", "l91", "l93", "returned"}
            => gif_image[p] = OwnGif(p)
    /\ \A d \in DirNames :
         fs[d].exists
         => /\ fs[d].owner \in Procs
            /\ tmp[fs[d].owner] = d
            /\ \A e \in fs[d].files :
                 e.name = "temp.gif" /\ e.data = OwnGif(fs[d].owner)
    /\ \A p, q \in Procs :
         (p # q /\ InStaging(p) /\ InStaging(q)) => tmp[p] # tmp[q]

C10_Witness ==
    \E p, q \in Procs :
        /\ p # q
        /\ pc[p] = "l88" /\ pc[q] = "l87"
        /\ tmp[p] # tmp[q]
        /\ frames[p] # frames[q]
        /\ HasFile(fs, tmp_file[q])
        /\ gif_image[p] = OwnGif(p)

\* C3: when uuid is absent or None, iiif_image_url aborts with 404, makes no
\* call to url_for and produces no locator, whatever else is supplied.
C3_MissingIdentifierAborts ==
    (url_ret.status # "pending"
       /\ (K_uuid \notin DOMAIN kwargs \/ kwargs[K_uuid] = None))
    => /\ url_ret.status = "abort"
       /\ url_ret.code = 404
       /\ url_for_call = <<>>
       /\ url_ret.url = NoCall

C3_Witness ==
    /\ url_ret.status = "abort"
    /\ K_uuid \in DOMAIN kwargs
    /\ kwargs[K_uuid] = None
    /\ K_size \in DOMAIN kwargs
    /\ K__external \in DOMAIN kwargs

\* the docstring's table of fall-back values
DocumentedDefault(k) ==
    CASE k = K_image_format -> StrV("png")
      [] k = K_quality -> StrV("default")
      [] k = K_region -> StrV("full")
      [] k = K_rotation -> IntV(0)
      [] k = K_size -> StrV("full")
      [] k = K_version -> StrV("v2")

\* C4: with a non-null uuid, url_for is called once, with the documented
\* default for each recognized parameter left out, the supplied value for
\* each one supplied, and the uuid as given.
C4_DefaultsAndSupplied ==
    (url_ret.status # "pending"
       /\ K_uuid \in DOMAIN kwargs /\ kwargs[K_uuid] # None)
    => /\ url_ret.status = "return"
       /\ Len(url_for_call) = 1
       /\ url_for_call[1].endpoint = "iiifimageapi"
       /\ url_for_call[1].values[K_uuid] = kwargs[K_uuid]
       /\ \A k \in RecognizedKeys \ {K_uuid} :
            url_for_call[1].values[k] =
                IF k \in DOMAIN kwargs THEN kwargs[k] ELSE DocumentedDefault(k)

C4_Witness ==
    /\ url_ret.status = "return"
    /\ DOMAIN kwargs = {K_uuid, K_size, K_rotation}
    /\ url_for_call[1].values[K_size] = StrV("200,200")
    /\ url_for_call[1].values[K_rotation] = IntV(90)
    /\ url_for_call[1].values[K_quality] = StrV("default")

\* C9: with a non-null uuid, the keyword arguments of the url_for call are
\* exactly the seven recognized names plus every supplied name that begins
\* with "_", each of those with its supplied value; other supplied names
\* are not forwarded.
C9_PassThrough ==
    (url_ret.status # "pending"
       /\ K_uuid \in DOMAIN kwargs /\ kwargs[K_uuid] # None)
    => /\ Len(url_for_call) = 1
       /\ DOMAIN url_for_call[1].values =
            RecognizedKeys
            \cup {k \in DOMAIN kwargs : Len(k) > 0 /\ Head(k) = "_"}
       /\ \A k \in DOMAIN kwargs :
            (Len(k) > 0 /\ Head(k) = "_")
            => url_for_call[1].values[k] = kwargs[k]
       /\ \A k \in DOMAIN kwargs \ RecognizedKeys :
            ~(Len(k) > 0 /\ Head(k) = "_")
            => k \notin DOMAIN url_for_call[1].values

C9_Witness ==
    /\ url_ret.status = "return"
    /\ K_foo \in DOMAIN kwargs
    /\ K__external \in DOMAIN kwargs
    /\ K__anchor \notin DOMAIN kwargs
    /\ url_for_call[1].values[K__external] = StrV("True")
    /\ K_foo \notin DOMAIN url_for_call[1].values

\* C7: should_cache answers False exactly when the mapping has the key
\* cache-control with the value no-cache or no-store.
C7_ShouldCache ==
    cache_ret.done
    => /\ ("cache-control" \notin DOMAIN request_args) => cache_ret.value = TRUE
       /\ ("cache-control" \in DOMAIN request_args)
          => (cache_ret.value = FALSE
                <=> \/ request_args["cache-control"] = "no-cache"
                    \/ request_args["cache-control"] = "no-store")

C7_Witness ==
    /\ cache_ret.done
    /\ "cache-control" \in DOMAIN request_args
    /\ request_args["cache-control"] = "no-store"
    /\ cache_ret.value = FALSE
====
